---------------------------- MODULE Spec2Model ----------------------------
(***************************************************************************)
(* A model of the DNS server of this repository: the UDP serving loop      *)
(* (src/src/server.rs), the DNS-over-TLS accept loop and its per-connection *)
(* tasks (src/src/dns_over_tls.rs) and the record encoder                   *)
(* (src/src/common.rs).  Messages are sequences of bytes (0..255); a name   *)
(* in its text form is a sequence of character codes.                       *)
(***************************************************************************)
EXTENDS Integers, Sequences, FiniteSets, TLC

VARIABLES
    udp_pc,         \* UDP loop: "recv" (awaiting recv_from), or how run_dns_server ended
    udpLast,        \* the last datagram the UDP loop received and what it sent for it
    default_ttl,    \* run_dot_server: the value of DNS_DEFAULT_TTL, or 60 without it
    acc_pc,         \* TLS accept loop: "accept" (awaiting listener.accept), or how
                    \* run_dot_server ended
    accepted,       \* number of connections listener.accept has returned in this run
    tokens,         \* RATE_LIMITER: permits left in the bucket
    refills,        \* history of RATE_LIMITER: the 10 ms periods that gave a permit back
    conn,           \* conn[c]: the task of connection c (its position and locals)
    writes,         \* writes[c]: the number of responses written to connection c's peer
    CACHE,          \* the LRU cache: entries [key, val], most recently used first
    lock,           \* holder of the CACHE mutex: a connection, or 0 when free
    used,           \* history of CACHE: the names put or found by get, each once, in
                    \* the order of their last use (the latest last)
    total_queries,  \* METRICS.total_queries
    failed_parses,  \* METRICS.failed_parses
    enc             \* a call of serialize_resource_record taken by itself: its
                    \* arguments and, once it has returned, its result

vars == <<udp_pc, udpLast, default_ttl, acc_pc, accepted, tokens, refills, conn, writes,
          CACHE, lock, used, total_queries, failed_parses, enc>>

udpVars == <<udp_pc, udpLast>>
dotVars == <<default_ttl, acc_pc, accepted, tokens, refills, conn, writes, CACHE, lock, used,
             total_queries, failed_parses>>

---------------------------------------------------------------------------
(* Bytes and fixed-width integers *)

\* u16::to_be_bytes
U16(n) == <<(n \div 256) % 256, n % 256>>

\* u32::to_be_bytes
U32(n) == <<(n \div 16777216) % 256, (n \div 65536) % 256, (n \div 256) % 256, n % 256>>

\* u16::from_be_bytes of the two bytes at positions i, i+1 (1-based)
BE16(b, i) == b[i] * 256 + b[i + 1]

\* the slice b[from..to) of the Rust source, with 0-based bounds
Slice(b, from, to) == SubSeq(b, from + 1, to)

\* the slice b[from..]
SliceFrom(b, from) == SubSeq(b, from + 1, Len(b))

Dot == 46

---------------------------------------------------------------------------
(* The record encoder, src/src/common.rs *)

MaxLabelLen == 63

\* the place of the first '.' of s, or 0 when s has none
FirstDot(s) ==
    IF \E i \in 1..Len(s) : s[i] = Dot
    THEN CHOOSE i \in 1..Len(s) : s[i] = Dot /\ \A j \in 1..(i - 1) : s[j] # Dot
    ELSE 0

\* s.split('.'): the pieces of s between the '.' characters, empty ones included
RECURSIVE Split(_)
Split(s) ==
    LET d == FirstDot(s) IN
    IF d = 0 THEN <<s>>
    ELSE <<SubSeq(s, 1, d - 1)>> \o Split(SubSeq(s, d + 1, Len(s)))

\* the for loop of serialize_name over the labels: an oversized label returns
\* the error with what the earlier labels pushed still in buf
RECURSIVE PushLabels(_, _)
PushLabels(labels, buf) ==
    IF labels = <<>> THEN [ok |-> TRUE, buf |-> buf]
    ELSE LET label == Head(labels) IN
         IF label # <<>>
         THEN IF Len(label) > MaxLabelLen
              THEN [ok |-> FALSE, buf |-> buf]
              ELSE PushLabels(Tail(labels), (buf \o <<Len(label)>>) \o label)
         ELSE PushLabels(Tail(labels), buf)

\* serialize_name(name, buf), name given by its to_string()
serialize_name(s, buf) ==
    LET r == PushLabels(Split(s), buf) IN
    IF r.ok THEN [ok |-> TRUE, buf |-> Append(r.buf, 0)] ELSE r

\* record_type of serialize_resource_record: 0 stands for the unsupported arm
RecordType(rdata) ==
    CASE rdata.kind = "A"    -> 1
      [] rdata.kind = "AAAA" -> 28
      [] OTHER               -> 0

ClassIN == 1

\* serialize_resource_record(record, buf): the name, type, class, TTL, a two-byte
\* placeholder, the address octets, and the placeholder backpatched
serialize_resource_record(record, buf) ==
    LET n == serialize_name(record.name, buf) IN
    IF ~n.ok THEN n
    ELSE IF RecordType(record.data) = 0 THEN [ok |-> FALSE, buf |-> n.buf]
    ELSE LET fixed        == ((n.buf \o U16(RecordType(record.data))) \o U16(ClassIN))
                                \o U32(record.ttl)
             data_len_pos == Len(fixed)
             reserved     == fixed \o <<0, 0>>
             start_len    == Len(reserved)
             written      == reserved \o record.data.octets
             end_len      == Len(written)
             data_len     == (end_len - start_len) % 65536
         IN  [ok  |-> TRUE,
              buf |-> (SubSeq(written, 1, data_len_pos) \o U16(data_len))
                          \o SubSeq(written, data_len_pos + 3, Len(written))]

---------------------------------------------------------------------------
(* The external packet parser, Packet::parse of the dns_parser crate, as far *)
(* as the server uses it: the header, the questions, and the structure of    *)
(* the records behind them.  Offsets are 0-based as in the wire format.      *)
(* Names are read label by label; the inputs of this model carry no          *)
(* compression pointers, and a length byte above 63 is rejected.             *)

HeaderLen == 12

\* the query types and classes the parser knows; anything else is a parse error
KnownQTypes == {1, 2, 4, 5, 6, 7, 8, 9, 10, 11, 12, 13, 14, 15, 16, 28, 33, 252, 253, 254, 255}
KnownQClasses == {1, 2, 3, 4, 255}

QTypeA == 1
QTypeAAAA == 28

\* a name at offset pos: its text (labels joined by '.') and the offset behind it
RECURSIVE ParseName(_, _, _)
ParseName(b, pos, text) ==
    IF pos >= Len(b) THEN [ok |-> FALSE, next |-> pos, text |-> text]
    ELSE LET n == b[pos + 1] IN
         IF n = 0 THEN [ok |-> TRUE, next |-> pos + 1, text |-> text]
         ELSE IF n > MaxLabelLen \/ pos + 1 + n > Len(b)
              THEN [ok |-> FALSE, next |-> pos, text |-> text]
              ELSE ParseName(b, pos + 1 + n,
                             (IF text = <<>> THEN <<>> ELSE Append(text, Dot))
                                 \o Slice(b, pos + 1, pos + 1 + n))

\* count questions from offset pos
RECURSIVE ParseQuestions(_, _, _, _)
ParseQuestions(b, pos, count, acc) ==
    IF count = 0 THEN [ok |-> TRUE, next |-> pos, questions |-> acc]
    ELSE LET nm == ParseName(b, pos, <<>>) IN
         IF ~nm.ok \/ nm.next + 4 > Len(b)
         THEN [ok |-> FALSE, next |-> pos, questions |-> acc]
         ELSE LET qtype  == BE16(b, nm.next + 1)
                  qclass == BE16(b, nm.next + 3) % 32768
              IN  IF qtype \notin KnownQTypes \/ qclass \notin KnownQClasses
                  THEN [ok |-> FALSE, next |-> pos, questions |-> acc]
                  ELSE ParseQuestions(b, nm.next + 4, count - 1,
                                      Append(acc, [qname |-> nm.text, qtype |-> qtype]))

\* count resource records from offset pos: name, type, class, TTL, data length, data
RECURSIVE ParseRecords(_, _, _)
ParseRecords(b, pos, count) ==
    IF count = 0 THEN [ok |-> TRUE, next |-> pos]
    ELSE LET nm == ParseName(b, pos, <<>>) IN
         IF ~nm.ok \/ nm.next + 10 > Len(b) THEN [ok |-> FALSE, next |-> pos]
         ELSE LET rdlen == BE16(b, nm.next + 9) IN
              IF nm.next + 10 + rdlen > Len(b) THEN [ok |-> FALSE, next |-> pos]
              ELSE ParseRecords(b, nm.next + 10 + rdlen, count - 1)

ParseError == [ok |-> FALSE, questions |-> <<>>]

\* Packet::parse(buf) computed on the bytes: Ok(packet) with its questions, or Err
ParseBytes(b) ==
    IF Len(b) < HeaderLen THEN ParseError
    ELSE IF (b[4] \div 64) % 2 = 1 THEN ParseError      \* reserved header bit set
    ELSE LET qs == ParseQuestions(b, HeaderLen, BE16(b, 5), <<>>) IN
         IF ~qs.ok THEN ParseError
         ELSE LET rs == ParseRecords(b, qs.next, BE16(b, 7) + BE16(b, 9) + BE16(b, 11)) IN
              IF ~rs.ok THEN ParseError
              ELSE [ok |-> TRUE, questions |-> qs.questions]

---------------------------------------------------------------------------
(* The messages the peers send *)

\* a name in wire form, from its labels
RECURSIVE WireName(_)
WireName(labels) ==
    IF labels = <<>> THEN <<0>>
    ELSE (<<Len(Head(labels))>> \o Head(labels)) \o WireName(Tail(labels))

\* a question: name, type, class IN
Question(labels, qtype) == (WireName(labels) \o U16(qtype)) \o U16(1)

RECURSIVE Concat(_)
Concat(ss) == IF ss = <<>> THEN <<>> ELSE Head(ss) \o Concat(Tail(ss))

\* an EDNS0 OPT pseudo-record: root name, type 41, UDP size 4096, no options
OptRecord == <<0>> \o U16(41) \o U16(4096) \o U32(0) \o U16(0)

\* a standard query (RD set) with the given questions and additional records
MkQuery(id, questions, additional) ==
    U16(id) \o <<1, 0>> \o U16(Len(questions)) \o U16(0) \o U16(0)
        \o U16(Len(additional)) \o Concat(questions) \o Concat(additional)

LabelsA == <<<<97>>, <<98>>>>       \* "a.b"
LabelsB == <<<<99>>>>               \* "c"
NameA == <<97, 46, 98>>
NameB == <<99>>
QTypeMX == 15

QueryA1    == MkQuery(1, <<Question(LabelsA, QTypeA)>>, <<>>)
QueryA2    == MkQuery(2, <<Question(LabelsA, QTypeAAAA)>>, <<>>)
QueryB2    == MkQuery(2, <<Question(LabelsB, QTypeA)>>, <<>>)
QueryMX    == MkQuery(3, <<Question(LabelsA, QTypeMX)>>, <<>>)
QueryTwo   == MkQuery(4, <<Question(LabelsB, QTypeA), Question(LabelsA, QTypeA)>>, <<>>)
QueryTwice == MkQuery(8, <<Question(LabelsB, QTypeA), Question(LabelsB, QTypeAAAA)>>, <<>>)
QueryOpt   == MkQuery(5, <<Question(LabelsB, QTypeA)>>, <<OptRecord>>)
QueryEmpty == MkQuery(6, <<>>, <<>>)
\* a header that announces one question and ends there
Truncated  == U16(7) \o <<1, 0>> \o U16(1) \o U16(0) \o U16(0) \o U16(0)

\* every kind of message a peer sends
AllQueries ==
    {QueryA1, QueryA2, QueryB2, QueryMX, QueryTwo, QueryTwice, QueryOpt, QueryEmpty, Truncated}

\* a query of class CH, a query for the root name, and queries of the types NS,
\* TXT and ANY
QueryCH    == MkQuery(9, <<(WireName(LabelsA) \o U16(QTypeA)) \o U16(3)>>, <<>>)
QueryRoot  == MkQuery(10, <<Question(<<>>, QTypeA)>>, <<>>)
QueryNS    == MkQuery(11, <<Question(LabelsB, 2)>>, <<>>)
QueryTXT   == MkQuery(15, <<Question(LabelsB, 16)>>, <<>>)
QueryANY   == MkQuery(16, <<Question(LabelsA, 255)>>, <<>>)

\* byte sequences the parser rejects: shorter than a header, a set reserved
\* header bit, an unknown query type, an unknown query class, a label that runs
\* past the end, an announced record that is missing
TooShort   == <<1, 2, 3>>
Reserved   == U16(12) \o <<1, 64>> \o U16(1) \o U16(0) \o U16(0) \o U16(0)
                  \o Question(LabelsA, QTypeA)
BadType    == MkQuery(13, <<Question(LabelsA, 99)>>, <<>>)
BadClass   == MkQuery(17, <<(WireName(LabelsA) \o U16(QTypeA)) \o U16(9)>>, <<>>)
Overrun    == U16(18) \o <<1, 0>> \o U16(1) \o U16(0) \o U16(0) \o U16(0) \o <<5, 97, 98>>
NoRecord   == U16(14) \o <<1, 0>> \o U16(1) \o U16(0) \o U16(0) \o U16(1)
                  \o Question(LabelsA, QTypeA)

\* the datagrams the UDP socket receives
UdpDatagrams ==
    AllQueries \cup {QueryCH, QueryRoot, QueryNS, QueryTXT, QueryANY,
                     TooShort, Reserved, BadType, BadClass, Overrun, NoRecord}

---------------------------------------------------------------------------
(* The resolver and the addresses *)

V4(a, b, c, d) == [fam |-> "V4", octets |-> <<a, b, c, d>>]
V6(o) == [fam |-> "V6", octets |-> o]

\* "192.168.1.1".parse().unwrap()
Fallback == V4(192, 168, 1, 1)

\* "::1".parse().unwrap()
Loopback6 == V6(<<0, 0, 0, 0, 0, 0, 0, 0, 0, 0, 0, 0, 0, 0, 0, 1>>)

NoAddress == [fam |-> "None", octets |-> <<>>]

\* what resolver::resolve_recursively can return: None (lookup failed or empty),
\* or the first address of the lookup, of either family
ResolverResults ==
    {NoAddress, V4(10, 0, 0, 7), V6(<<32, 1, 13, 184, 0, 0, 0, 0, 0, 0, 0, 0, 0, 0, 0, 7>>)}

\* resolve_recursively(..).unwrap_or_else(|| "192.168.1.1".parse().unwrap())
OrFallback(r) == IF r.fam = "None" THEN Fallback ELSE r

\* the match on ip that picks RData::A or RData::AAAA
RDataOf(ip) == [kind |-> IF ip.fam = "V4" THEN "A" ELSE "AAAA", octets |-> ip.octets]

---------------------------------------------------------------------------
(* Building a response *)

\* the hard-coded TTL of both paths
ResponseTtl == 60

\* a build_dns_response that echoes the flags of the query instead of writing
\* the response flags
build_dns_response_echo(query, qname, ip, ttl) ==
    LET response == (((Slice(query, 0, 6) \o <<0, 1>>) \o <<0, 0>>) \o <<0, 0>>)
        withq    == response \o SliceFrom(query, 12)
        record   == [name |-> qname, ttl |-> ttl, data |-> RDataOf(ip)]
    IN  serialize_resource_record(record, withq)

\* build_dns_response(query, qname, ip, ttl) of dns_over_tls.rs
build_dns_response(query, qname, ip, ttl) ==
    LET response == ((((Slice(query, 0, 2) \o <<129, 128>>) \o Slice(query, 4, 6))
                        \o <<0, 1>>) \o <<0, 0>>) \o <<0, 0>>
        withq    == response \o SliceFrom(query, 12)
        record   == [name |-> qname, ttl |-> ttl, data |-> RDataOf(ip)]
    IN  serialize_resource_record(record, withq)

\* the response the UDP loop builds for a parsed query (server.rs, lines 20-49)
UdpResponse(query, packet, r) ==
    LET response == ((((Slice(query, 0, 2) \o <<129, 128>>) \o Slice(query, 4, 6))
                        \o <<0, 1>>) \o <<0, 0>>) \o <<0, 0>>
        withq    == response \o SliceFrom(query, 12)
        ip       == OrFallback(r)
        record   == [name |-> packet.questions[1].qname, ttl |-> 60, data |-> RDataOf(ip)]
    IN  serialize_resource_record(record, withq)

---------------------------------------------------------------------------
(* The shared state of dns_over_tls.rs *)

\* LruCache::new(100)
CacheCapacity == 100

\* Quota::per_second(100): a burst of 100 permits, one permit back every 10 ms
Burst == 100

CacheIndex(cache, k) ==
    IF \E i \in 1..Len(cache) : cache[i].key = k
    THEN CHOOSE i \in 1..Len(cache) : cache[i].key = k
    ELSE 0

Without(cache, i) == SubSeq(cache, 1, i - 1) \o SubSeq(cache, i + 1, Len(cache))

CacheContains(cache, k) == CacheIndex(cache, k) # 0

\* the value LruCache::get returns on a hit
CacheValue(cache, k) == cache[CacheIndex(cache, k)].val

\* a get that leaves the order alone, as LruCache::peek does
CachePeek(cache, k) == cache

\* the cache after LruCache::get(k): a hit moves the entry to the front
CacheGet(cache, k) ==
    LET i == CacheIndex(cache, k) IN
    IF i = 0 THEN cache ELSE <<cache[i]>> \o Without(cache, i)

\* the cache after LruCache::put(k, v): an existing key is updated and moved to
\* the front; a new key evicts the least recently used entry of a full cache
CachePut(cache, k, v) ==
    LET i == CacheIndex(cache, k) IN
    IF i # 0 THEN <<[key |-> k, val |-> v]>> \o Without(cache, i)
    ELSE IF Len(cache) >= CacheCapacity
         THEN <<[key |-> k, val |-> v]>> \o SubSeq(cache, 1, Len(cache) - 1)
         ELSE <<[key |-> k, val |-> v]>> \o cache

\* the history after name k was put or found: k is the latest, once
Touch(h, k) == Append(SelectSeq(h, LAMBDA x : x # k), k)

---------------------------------------------------------------------------
(* Bounds and inputs *)

\* connections the TLS listener accepts in a run of the TLS server alone
MaxConns == 2

\* connections the TLS listener accepts in a run of both servers side by side
MaxMixedConns == 1

\* permits the limiter holds at most in the runs that start after a burst: these
\* runs are over before the bucket has refilled beyond that
MaxPermits == 2

\* one connection more than MaxConns, for the runs in which two concurrent
\* connections follow an earlier one
Conns == 1..(MaxConns + 1)

\* the bodies the peers send in the runs of the TLS server alone: one question each
DotQueries == {QueryA1, QueryA2, QueryB2, QueryMX, Truncated}

\* the i-th of the names that fill the cache: two letters
NameOf(i) == <<97 + (i \div 26), 97 + (i % 26)>>

\* the query of type A for the i-th name, with i as its transaction id
CacheQueryOf(i) == MkQuery(i, <<Question(<<NameOf(i)>>, QTypeA)>>, <<>>)

\* the response the server caches for the i-th name when the resolver finds nothing
WarmResponse(i) == build_dns_response(CacheQueryOf(i), NameOf(i), Fallback, ResponseTtl).buf

\* CACHE after n <= CacheCapacity connections, one after the other, have asked for
\* the names 1..n: n puts of new names, the latest in front
Warm(n) == [i \in 1..n |-> [key |-> NameOf(n + 1 - i), val |-> WarmResponse(n + 1 - i)]]

\* the bodies the peers send to the server with the full cache: queries for the
\* two names used longest ago and for a name the cache has not seen
CacheQueries == {CacheQueryOf(1), CacheQueryOf(2), CacheQueryOf(CacheCapacity + 1)}

\* the parser's result on each message of the model, computed once
Parsed == [b \in UdpDatagrams \cup CacheQueries |-> ParseBytes(b)]

\* Packet::parse(buf)
Parse(b) == Parsed[b]

NoTask == [pc |-> "free", buf |-> <<>>, qi |-> 0, response |-> <<>>]

NoDatagram == [query |-> <<>>, sent |-> <<>>]

\* no call of the encoder by itself
NoCall == [pc |-> "none"]

Init ==
    /\ udp_pc = "recv"
    /\ udpLast = NoDatagram
    /\ default_ttl = ResponseTtl
    /\ acc_pc = "accept"
    /\ accepted = 0
    /\ tokens = Burst
    /\ refills = 0
    /\ conn = [c \in Conns |-> NoTask]
    /\ writes = [c \in Conns |-> 0]
    /\ CACHE = <<>>
    /\ lock = 0
    /\ used = <<>>
    /\ total_queries = 0
    /\ failed_parses = 0
    /\ enc = NoCall

\* the server after CacheCapacity connections, each finished before the next was
\* accepted, have asked for the names 1..CacheCapacity in turn while the resolver
\* found nothing: the cache is full, the limiter has its permits back
InitCache ==
    /\ udp_pc = "recv"
    /\ udpLast = NoDatagram
    /\ default_ttl = ResponseTtl
    /\ acc_pc = "accept"
    /\ accepted = 0
    /\ tokens = Burst
    /\ refills = 0
    /\ conn = [c \in Conns |-> NoTask]
    /\ writes = [c \in Conns |-> 0]
    /\ CACHE = Warm(CacheCapacity)
    /\ lock = 0
    /\ used = [i \in 1..CacheCapacity |-> NameOf(i)]
    /\ total_queries = CacheCapacity
    /\ failed_parses = 0
    /\ enc = NoCall

\* permits the limiter has left after a burst of connections
BurstLeft == 0

\* the server after a burst of earlier connections has used up all permits of
\* the limiter; those connections ended in the TLS handshake, so the cache and
\* the counters are as at the start
InitBurst ==
    /\ udp_pc = "recv"
    /\ udpLast = NoDatagram
    /\ default_ttl = ResponseTtl
    /\ acc_pc = "accept"
    /\ accepted = 0
    /\ tokens = BurstLeft
    /\ refills = 0
    /\ conn = [c \in Conns |-> NoTask]
    /\ writes = [c \in Conns |-> 0]
    /\ CACHE = <<>>
    /\ lock = 0
    /\ used = <<>>
    /\ total_queries = 0
    /\ failed_parses = 0
    /\ enc = NoCall

\* the values of default_ttl: 60 when DNS_DEFAULT_TTL is not set (or set to 60),
\* 300 when it is set to 300
ConfiguredTtls == {ResponseTtl, 300}

\* the server started with or without DNS_DEFAULT_TTL in its environment
InitConfigured ==
    /\ udp_pc = "recv"
    /\ udpLast = NoDatagram
    /\ default_ttl \in ConfiguredTtls
    /\ acc_pc = "accept"
    /\ accepted = 0
    /\ tokens = Burst
    /\ refills = 0
    /\ conn = [c \in Conns |-> NoTask]
    /\ writes = [c \in Conns |-> 0]
    /\ CACHE = <<>>
    /\ lock = 0
    /\ used = <<>>
    /\ total_queries = 0
    /\ failed_parses = 0
    /\ enc = NoCall

---------------------------------------------------------------------------
(* The UDP loop, run_dns_server of server.rs.  One action is one iteration  *)
(* of the loop, from recv_from to the point where the loop is back at       *)
(* recv_from or has ended.  udp_pc is "recv" while the loop runs; otherwise  *)
(* it names the call whose error the ? returned, or "panicked".             *)

\* recv_from fails: the ? ends run_dns_server
UdpRecvErr ==
    /\ udp_pc = "recv"
    /\ udp_pc' = "recv_from_err"
    /\ UNCHANGED <<udpLast, dotVars, enc>>

\* a loop that returns the parse error with ? instead of skipping the datagram
UdpSkipReturns(d) == [pc |-> "parse_err", last |-> [query |-> d, sent |-> <<>>]]

\* the outcome of the iteration for a datagram Packet::parse rejects: the if let
\* is skipped and the loop is at recv_from again
UdpSkip(d) == [pc |-> "recv", last |-> [query |-> d, sent |-> <<>>]]

\* a datagram Packet::parse rejects
UdpUnparseable(d) ==
    /\ udp_pc = "recv"
    /\ ~Parse(d).ok
    /\ udp_pc' = UdpSkip(d).pc
    /\ udpLast' = UdpSkip(d).last
    /\ UNCHANGED <<dotVars, enc>>

\* a parsed packet without questions: packet.questions[0] panics
UdpNoQuestion(d) ==
    /\ udp_pc = "recv"
    /\ Parse(d).ok
    /\ Parse(d).questions = <<>>
    /\ udp_pc' = "panicked"
    /\ udpLast' = [query |-> d, sent |-> <<>>]
    /\ UNCHANGED <<dotVars, enc>>

\* a parsed packet with a question: resolve, encode, send.  r is what the
\* resolver returns, sendOk whether send_to succeeds; a failed encoding or a
\* failed send ends run_dns_server through the ?
UdpAnswer(d, r, sendOk) ==
    /\ udp_pc = "recv"
    /\ Parse(d).ok
    /\ Parse(d).questions # <<>>
    /\ LET resp == UdpResponse(d, Parse(d), r) IN
       IF ~resp.ok
       THEN /\ udpLast' = [query |-> d, sent |-> <<>>]
            /\ udp_pc' = "serialize_err"
       ELSE IF ~sendOk
       THEN /\ udpLast' = [query |-> d, sent |-> <<>>]
            /\ udp_pc' = "send_to_err"
       ELSE /\ udpLast' = [query |-> d, sent |-> resp.buf]
            /\ udp_pc' = "recv"
    /\ UNCHANGED <<dotVars, enc>>

NextUdp ==
    \/ UdpRecvErr
    \/ \E d \in UdpDatagrams : UdpUnparseable(d)
    \/ \E d \in UdpDatagrams : UdpNoQuestion(d)
    \/ \E d \in UdpDatagrams, r \in ResolverResults, sendOk \in BOOLEAN : UdpAnswer(d, r, sendOk)

---------------------------------------------------------------------------
(* The TLS accept loop, run_dot_server of dns_over_tls.rs *)

\* a limiter that gets two permits back every 10 ms
RefillTwo(cap) ==
    /\ tokens < cap
    /\ tokens' = tokens + 2
    /\ refills' = refills + 1
    /\ UNCHANGED <<udpVars, enc, default_ttl, used, acc_pc, accepted, conn, writes, CACHE, lock,
                   total_queries, failed_parses>>

\* 10 ms pass: the limiter gets one permit back, while it holds fewer than cap
Refill(cap) ==
    /\ tokens < cap
    /\ tokens' = tokens + 1
    /\ refills' = refills + 1
    /\ UNCHANGED <<udpVars, enc, default_ttl, used, acc_pc, accepted, conn, writes, CACHE, lock,
                   total_queries, failed_parses>>

\* 10 ms pass: the limiter gets one permit back, up to the burst
Tick == Refill(Burst)

\* listener.accept() fails: the ? ends run_dot_server
AcceptErr ==
    /\ acc_pc = "accept"
    /\ acc_pc' = "accept_err"
    /\ UNCHANGED <<udpVars, enc, default_ttl, refills, used, accepted, tokens, conn, writes,
                   CACHE, lock, total_queries, failed_parses>>

\* an accept loop that spawns the task whatever check_one says
AcceptUnchecked(limit) ==
    /\ acc_pc = "accept"
    /\ accepted < limit
    /\ accepted' = accepted + 1
    /\ tokens' = IF tokens = 0 THEN 0 ELSE tokens - 1
    /\ conn' = [conn EXCEPT ![accepted + 1].pc = "handshake"]
    /\ UNCHANGED <<udpVars, enc, default_ttl, refills, used, acc_pc, writes, CACHE, lock,
                   total_queries, failed_parses>>

\* a connection is accepted, the next of at most limit: RATE_LIMITER.check_one(),
\* then spawn or continue
Accept(limit) ==
    /\ acc_pc = "accept"
    /\ accepted < limit
    /\ accepted' = accepted + 1
    /\ IF tokens = 0
       THEN /\ conn' = [conn EXCEPT ![accepted + 1].pc = "dropped"]
            /\ UNCHANGED tokens
       ELSE /\ tokens' = tokens - 1
            /\ conn' = [conn EXCEPT ![accepted + 1].pc = "handshake"]
    /\ UNCHANGED <<udpVars, enc, default_ttl, refills, used, acc_pc, writes, CACHE, lock,
                   total_queries, failed_parses>>

---------------------------------------------------------------------------
(* A connection task, handle_dot_connection of dns_over_tls.rs.  A task is  *)
(* at "handshake", "read_len", "read_body", "write_hit" or "write_miss"     *)
(* while it awaits that operation; at "lookup" or "miss" it is about to     *)
(* lock CACHE for the get or for the put.  It ends "done" (Ok) or "failed"  *)
(* (Err, which the spawned closure logs).                                   *)

Ended(pc) == [pc |-> pc, buf |-> <<>>, qi |-> 0, response |-> <<>>]

\* the end of one pass of the for loop over packet.questions: the next
\* question, or Ok(()) behind the loop
NextQuestion(t) ==
    IF t.qi < Len(Parse(t.buf).questions)
    THEN [pc |-> "lookup", buf |-> t.buf, qi |-> t.qi + 1, response |-> <<>>]
    ELSE Ended("done")

\* a task whose error is returned into run_dot_server, as if the handler were
\* awaited in the accept loop with ?
TaskErrEndsLoop(c) ==
    /\ conn' = [conn EXCEPT ![c] = Ended("failed")]
    /\ acc_pc' = "task_err"
    /\ UNCHANGED <<udpVars, enc, default_ttl, refills, used, accepted, tokens, writes, CACHE,
                   total_queries, failed_parses>>

\* a ? returns the error to the spawned closure, which logs it; the accept loop
\* and the other tasks are not involved
TaskErr(c) ==
    /\ conn' = [conn EXCEPT ![c] = Ended("failed")]
    /\ UNCHANGED <<udpVars, enc, default_ttl, refills, used, acc_pc, accepted, tokens,
                   writes, CACHE, total_queries, failed_parses>>

HandshakeOk(c) ==
    /\ conn[c].pc = "handshake"
    /\ conn' = [conn EXCEPT ![c].pc = "read_len"]
    /\ UNCHANGED <<udpVars, enc, default_ttl, refills, used, acc_pc, accepted, tokens,
                   writes, CACHE, lock, total_queries, failed_parses>>

HandshakeErr(c) ==
    /\ conn[c].pc = "handshake"
    /\ TaskErr(c)
    /\ UNCHANGED lock

ReadLenOk(c) ==
    /\ conn[c].pc = "read_len"
    /\ conn' = [conn EXCEPT ![c].pc = "read_body"]
    /\ UNCHANGED <<udpVars, enc, default_ttl, refills, used, acc_pc, accepted, tokens,
                   writes, CACHE, lock, total_queries, failed_parses>>

ReadLenErr(c) ==
    /\ conn[c].pc = "read_len"
    /\ TaskErr(c)
    /\ UNCHANGED lock

ReadBodyErr(c) ==
    /\ conn[c].pc = "read_body"
    /\ TaskErr(c)
    /\ UNCHANGED lock

\* the body q is read: count it, parse it, and enter the loop over its questions
ReadBodyOk(c, q) ==
    /\ conn[c].pc = "read_body"
    /\ total_queries' = total_queries + 1
    /\ IF ~Parse(q).ok
       THEN /\ failed_parses' = failed_parses + 1
            /\ conn' = [conn EXCEPT ![c] = Ended("done")]
       ELSE /\ UNCHANGED failed_parses
            /\ IF Parse(q).questions = <<>>
               THEN conn' = [conn EXCEPT ![c] = Ended("done")]
               ELSE conn' = [conn EXCEPT ![c] =
                                [pc |-> "lookup", buf |-> q, qi |-> 1, response |-> <<>>]]
    /\ UNCHANGED <<udpVars, enc, default_ttl, refills, used, acc_pc, accepted, tokens,
                   writes, CACHE, lock>>

\* the question the for loop of task c is at
question(c) == Parse(conn[c].buf).questions[conn[c].qi]

\* who holds the CACHE mutex once task c has taken the cache-hit branch: the
\* guard is a temporary of the if let scrutinee and lives until the block is left
HitGuard(c) == c

\* CACHE.lock().unwrap().get(&domain).cloned() is Some
LookupHit(c) ==
    /\ conn[c].pc = "lookup"
    /\ lock = 0
    /\ CacheContains(CACHE, question(c).qname)
    /\ CACHE' = CacheGet(CACHE, question(c).qname)
    /\ lock' = HitGuard(c)
    /\ used' = Touch(used, question(c).qname)
    /\ conn' = [conn EXCEPT ![c].pc = "write_hit",
                            ![c].response = CacheValue(CACHE, question(c).qname)]
    /\ UNCHANGED <<udpVars, enc, default_ttl, refills, acc_pc, accepted, tokens, writes,
                   total_queries, failed_parses>>

\* the get is None: the guard is dropped with the if let; then the match on qtype
LookupMiss(c) ==
    /\ conn[c].pc = "lookup"
    /\ lock = 0
    /\ ~CacheContains(CACHE, question(c).qname)
    /\ IF question(c).qtype \in {QTypeA, QTypeAAAA}
       THEN conn' = [conn EXCEPT ![c].pc = "miss"]
       ELSE conn' = [conn EXCEPT ![c] = NextQuestion(conn[c])]
    /\ UNCHANGED <<udpVars, enc, default_ttl, refills, used, acc_pc, accepted, tokens,
                   writes, CACHE, lock, total_queries, failed_parses>>

\* the address of the match arms: the resolver's (or the fallback) for A, ::1 for AAAA
AnswerIp(qtype, r) == IF qtype = QTypeA THEN OrFallback(r) ELSE Loopback6

\* resolve and encode, then CACHE.lock().unwrap().put(domain, response)
Insert(c, r) ==
    /\ conn[c].pc = "miss"
    /\ lock = 0
    /\ LET resp == build_dns_response(conn[c].buf, question(c).qname,
                                      AnswerIp(question(c).qtype, r), ResponseTtl)
       IN  IF resp.ok
           THEN /\ CACHE' = CachePut(CACHE, question(c).qname, resp.buf)
                /\ used' = Touch(used, question(c).qname)
                /\ conn' = [conn EXCEPT ![c].pc = "write_miss", ![c].response = resp.buf]
           ELSE /\ conn' = [conn EXCEPT ![c] = Ended("failed")]
                /\ UNCHANGED <<CACHE, used>>
    /\ UNCHANGED <<udpVars, enc, default_ttl, refills, acc_pc, accepted, tokens, writes,
                   lock, total_queries, failed_parses>>

\* the mutex after task c has left the if let: its guard, if it held one, is dropped
Unlocked(c) == IF lock = c THEN 0 ELSE lock

\* tls_stream.write_all(&response) completes
WriteOk(c) ==
    /\ conn[c].pc \in {"write_hit", "write_miss"}
    /\ writes' = [writes EXCEPT ![c] = @ + 1]
    /\ lock' = Unlocked(c)
    /\ conn' = [conn EXCEPT ![c] = NextQuestion(conn[c])]
    /\ UNCHANGED <<udpVars, enc, default_ttl, refills, used, acc_pc, accepted, tokens, CACHE,
                   total_queries, failed_parses>>

\* tls_stream.write_all(&response) fails
WriteErr(c) ==
    /\ conn[c].pc \in {"write_hit", "write_miss"}
    /\ lock' = Unlocked(c)
    /\ TaskErr(c)

\* the steps of the TLS server when at most limit connections arrive, the peers
\* send bodies of Qs and the resolver answers from Rs
NextDotOf(limit, Qs, Rs) ==
    \/ AcceptErr
    \/ Accept(limit)
    \/ \E c \in Conns : HandshakeOk(c)
    \/ \E c \in Conns : HandshakeErr(c)
    \/ \E c \in Conns : ReadLenOk(c)
    \/ \E c \in Conns : ReadLenErr(c)
    \/ \E c \in Conns : ReadBodyErr(c)
    \/ \E c \in Conns, q \in Qs : ReadBodyOk(c, q)
    \/ \E c \in Conns : LookupHit(c)
    \/ \E c \in Conns : LookupMiss(c)
    \/ \E c \in Conns, r \in Rs : Insert(c, r)
    \/ \E c \in Conns : WriteOk(c)
    \/ \E c \in Conns : WriteErr(c)

NextDot == Tick \/ NextDotOf(MaxConns, DotQueries, ResolverResults)

NextDotThree == Tick \/ NextDotOf(MaxConns + 1, DotQueries, ResolverResults)

Next == NextUdp \/ NextDotOf(MaxMixedConns, AllQueries, ResolverResults)

\* the TLS server with a full cache: queries for cached and for new names, while
\* the resolver finds nothing or an IPv4 address
NextCache == Tick \/ NextDotOf(MaxConns, CacheQueries, {NoAddress, V4(10, 0, 0, 7)})

\* the TLS server while the limiter is short of permits
NextBurst == Refill(MaxPermits) \/ NextDotOf(MaxConns, DotQueries, ResolverResults)

\* main.rs spawns both loops: the UDP loop and the TLS server side by side, with
\* every kind of message
Spec == Init /\ [][Next]_vars

\* the UDP loop alone
SpecUdp == Init /\ [][NextUdp]_vars

\* the TLS server alone, with MaxConns connections
SpecDot == Init /\ [][NextDot]_vars

\* the TLS server alone, with one connection more
SpecDotThree == Init /\ [][NextDotThree]_vars

---------------------------------------------------------------------------
(* The record encoder taken by itself: serialize_resource_record called with *)
(* a record and a destination buffer.  A name is the sequence of its labels, *)
(* as a dns_parser::Name holds it.                                           *)

\* Name::to_string(): the labels joined by '.'
RECURSIVE to_string(_)
to_string(labels) ==
    IF labels = <<>> THEN <<>>
    ELSE IF Len(labels) = 1 THEN Head(labels)
    ELSE (Head(labels) \o <<Dot>>) \o to_string(Tail(labels))

\* a label of n bytes
LongLabel(n) == [i \in 1..n |-> 120]

\* the labels of the names encoded: "a", "A", a label of the largest size, one a
\* byte larger, and the three-byte label "a.b"
EncLabels == {<<97>>, <<65>>, LongLabel(MaxLabelLen), LongLabel(MaxLabelLen + 1), <<97, Dot, 98>>}

\* the names encoded: the root name and the names of one and of two labels
EncNames == {<<>>} \cup {<<l>> : l \in EncLabels} \cup {<<l, m>> : l, m \in EncLabels}

\* the record data: an A record, an AAAA record, and data of another type
EncData == {RDataOf(V4(10, 0, 0, 7)), RDataOf(Loopback6), [kind |-> "CNAME", octets |-> <<>>]}

\* the TTLs: zero, the servers' 60, 0x01020304 with its four different bytes, and
\* 0x7FFFFFFF
EncTtls == {0, ResponseTtl, 16909060, 2147483647}

\* the destination buffer before the call: empty, or holding earlier bytes
EncBufs == {<<>>, <<171, 205>>}

InitEncode ==
    /\ udp_pc = "recv"
    /\ udpLast = NoDatagram
    /\ default_ttl = ResponseTtl
    /\ acc_pc = "accept"
    /\ accepted = 0
    /\ tokens = Burst
    /\ refills = 0
    /\ conn = [c \in Conns |-> NoTask]
    /\ writes = [c \in Conns |-> 0]
    /\ CACHE = <<>>
    /\ lock = 0
    /\ used = <<>>
    /\ total_queries = 0
    /\ failed_parses = 0
    /\ enc \in {[pc |-> "call", name |-> n, ttl |-> t, data |-> d, buf |-> b] :
                   n \in EncNames, t \in EncTtls, d \in EncData, b \in EncBufs}

\* serialize_resource_record(&record, &mut buf) runs and returns
Encode ==
    /\ enc.pc = "call"
    /\ LET record == [name |-> to_string(enc.name), ttl |-> enc.ttl, data |-> enc.data]
           r      == serialize_resource_record(record, enc.buf)
       IN  enc' = [pc |-> "returned", name |-> enc.name, ttl |-> enc.ttl, data |-> enc.data,
                   buf |-> enc.buf, ok |-> r.ok, out |-> r.buf]
    /\ UNCHANGED <<udpVars, dotVars>>

\* the encoder alone, on each of its inputs
SpecEncode == InitEncode /\ [][Encode]_vars

\* both servers; on the TLS side the one-question bodies and the body that asks
\* for one name twice
NextConfigured ==
    NextUdp \/ NextDotOf(MaxMixedConns, DotQueries \cup {QueryTwice}, ResolverResults)

\* both servers, started with or without a configured default TTL
SpecConfigured == InitConfigured /\ [][NextConfigured]_vars

\* the TLS server alone, from the state in which the cache is full
SpecCache == InitCache /\ [][NextCache]_vars

\* the TLS server alone, from the state in which the limiter has no permit left
SpecBurst == InitBurst /\ [][NextBurst]_vars

---------------------------------------------------------------------------
(* Properties *)

\* the tasks that have read their query and are in the loop over its questions
InLoop(c) == conn[c].pc \in {"lookup", "miss", "write_hit", "write_miss"}

\* the task awaits write_all(&response): conn[c].response is what goes to the peer
Writing(c) == conn[c].pc \in {"write_hit", "write_miss"}

\* the task is at an .await
Suspended(c) == conn[c].pc \in {"handshake", "read_len", "read_body", "write_hit", "write_miss"}

\* bytes that are a DNS response message: a header with the QR bit set
IsResponse(m) == Len(m) >= HeaderLen /\ m[3] >= 128

\* w is a two-byte big-endian length followed by exactly that many bytes of a response
IsFramed(w) ==
    /\ Len(w) >= 2
    /\ BE16(w, 1) = Len(w) - 2
    /\ IsResponse(SliceFrom(w, 2))

\* C1: every response a connection task writes, from the cache or freshly
\* encoded, is a 2-byte big-endian length prefix followed by exactly that many
\* bytes of the encoded response.
C1_ResponsesFramed == \A c \in Conns : Writing(c) => IsFramed(conn[c].response)

\* the names a query asks for
NamesOf(b) == {Parse(b).questions[i].qname : i \in 1..Len(Parse(b).questions)}

\* the response carries the transaction id and the question section of the query
AnswersQuery(m, query) ==
    /\ Len(m) >= Len(query)
    /\ Slice(m, 0, 2) = Slice(query, 0, 2)
    /\ Slice(m, HeaderLen, Len(query)) = SliceFrom(query, HeaderLen)

\* C2: of two connections handled concurrently whose queries ask for different
\* names, each is written a response with the transaction id and the question of
\* its own query, whatever the cache holds.
C2_NoCrossTalk ==
    \A c, d \in Conns :
        (c # d /\ InLoop(c) /\ InLoop(d)
              /\ NamesOf(conn[c].buf) \cap NamesOf(conn[d].buf) = {}
              /\ Writing(c))
            => AnswersQuery(conn[c].response, conn[c].buf)

\* C3: no task holds the CACHE mutex while it is at a suspension point.
C3_NoLockAcrossAwait == \A c \in Conns : Suspended(c) => lock # c

\* a step in which task c ends with an error
Fails(c) == conn[c].pc # "failed" /\ conn'[c].pc = "failed"

\* C4: a failure inside one connection's task ends only that task: the accept
\* loop stays where it was and no other task changes.
C4_FailureIsLocal ==
    [][\A c \in Conns :
          Fails(c) => (acc_pc' = acc_pc /\ \A d \in Conns \ {c} : conn'[d] = conn[d])]_vars

\* a task has failed while another one is in its loop and the accept loop runs
C4_Witness ==
    \E c, d \in Conns :
        c # d /\ conn[c].pc = "failed" /\ InLoop(d) /\ acc_pc = "accept"

\* C5: a failed send of a UDP response, a failed encoding for a UDP query and a
\* failed accept on the TLS listener leave the owning loop running.
C5_ErrorsContained ==
    /\ udp_pc \notin {"send_to_err", "serialize_err"}
    /\ acc_pc # "accept_err"

\* the UDP loop has taken in a datagram in this step
UdpTook == udpLast' # udpLast

EmptyQuestions(b) == Parse(b).ok /\ Parse(b).questions = <<>>

\* C6: a packet that parses but has no question is answered by no response and
\* leaves the UDP loop receiving and the TLS accept loop accepting.
C6_EmptyQuestionsNonFatal ==
    [][/\ (UdpTook /\ EmptyQuestions(udpLast'.query))
            => (udpLast'.sent = <<>> /\ udp_pc' = "recv")
       /\ \A c \in Conns :
            (conn[c].pc = "read_body" /\ conn'[c].pc = "done")
                => (writes'[c] = 0 /\ acc_pc' = acc_pc)]_vars

\* C7: a datagram the parser rejects produces no outgoing datagram and leaves the
\* UDP loop at its receive step.
C7_UnparseableDropped ==
    [][(UdpTook /\ ~Parse(udpLast'.query).ok)
            => (udpLast'.sent = <<>> /\ udp_pc' = "recv")]_vars

\* the last datagram was rejected, nothing was sent, and the loop can answer a
\* valid query next
C7_Witness ==
    /\ udpLast.query \in UdpDatagrams
    /\ ~Parse(udpLast.query).ok
    /\ udpLast.sent = <<>>
    /\ udp_pc = "recv"
    /\ ENABLED UdpAnswer(QueryA1, NoAddress, TRUE)

Supported(qtype) == qtype \in {QTypeA, QTypeAAAA}

\* C8: a question of a type other than A and AAAA gets no answer: the UDP loop
\* sends nothing for it and a connection task writes nothing for it.
C8_UnsupportedTypeSkipped ==
    /\ (udpLast.sent # <<>>) => Supported(Parse(udpLast.query).questions[1].qtype)
    /\ \A c \in Conns : Writing(c) => Supported(question(c).qtype)

\* behind its header, m holds exactly QDCOUNT questions and then exactly
\* ANCOUNT + NSCOUNT + ARCOUNT = 1 records, and nothing else
CountsConsistent(m) ==
    /\ Len(m) >= HeaderLen
    /\ BE16(m, 7) + BE16(m, 9) + BE16(m, 11) = 1
    /\ LET qs == ParseQuestions(m, HeaderLen, BE16(m, 5), <<>>) IN
       /\ qs.ok
       /\ LET rs == ParseRecords(m, qs.next, 1) IN rs.ok /\ rs.next = Len(m)

\* C9: every encoded response agrees with its own count fields, also for queries
\* with several questions or with records behind the question section.
C9_CountsConsistent ==
    /\ (udpLast.sent # <<>>) => CountsConsistent(udpLast.sent)
    /\ \A c \in Conns : conn[c].pc = "write_miss" => CountsConsistent(conn[c].response)

\* the header of a response to query: the id and question count of the query,
\* the flags 0x81 0x80, one answer, no authority and no additional record
HeaderAnswers(m, query) ==
    /\ Len(m) >= HeaderLen
    /\ Slice(m, 0, 2) = Slice(query, 0, 2)
    /\ Slice(m, 2, 4) = <<129, 128>>
    /\ m[3] \div 128 = 1
    /\ m[4] % 16 = 0
    /\ Slice(m, 4, 6) = Slice(query, 4, 6)
    /\ BE16(m, 7) = 1
    /\ BE16(m, 9) = 0
    /\ BE16(m, 11) = 0

\* C10: every freshly encoded response, on the UDP path and on the TLS
\* cache-miss path, has the header of a response to its query.
C10_FreshHeader ==
    /\ (udpLast.sent # <<>>) => HeaderAnswers(udpLast.sent, udpLast.query)
    /\ \A c \in Conns :
          conn[c].pc = "write_miss" => HeaderAnswers(conn[c].response, conn[c].buf)

\* both paths have a fresh response at hand
C10_Witness ==
    /\ udpLast.sent # <<>>
    /\ \E c \in Conns : conn[c].pc = "write_miss"

---------------------------------------------------------------------------
(* Reading a resource record back, as a conformant DNS parser does *)

\* u32::from_be_bytes of the four bytes at positions i..i+3 (1-based)
BE32(b, i) == ((b[i] * 256 + b[i + 1]) * 256 + b[i + 2]) * 256 + b[i + 3]

NoRecordRead ==
    [ok |-> FALSE, name |-> <<>>, type |-> 0, class |-> 0, ttl |-> 0, rdlen |-> 0,
     rdata |-> <<>>, next |-> 0]

\* the resource record at offset pos of b: name, type, class, TTL, declared data
\* length and that many bytes of data
DecodeRecord(b, pos) ==
    LET nm == ParseName(b, pos, <<>>) IN
    IF ~nm.ok \/ nm.next + 10 > Len(b) THEN NoRecordRead
    ELSE LET rdlen == BE16(b, nm.next + 9) IN
         IF nm.next + 10 + rdlen > Len(b) THEN NoRecordRead
         ELSE [ok    |-> TRUE,
               name  |-> nm.text,
               type  |-> BE16(b, nm.next + 1),
               class |-> BE16(b, nm.next + 3),
               ttl   |-> BE32(b, nm.next + 5),
               rdlen |-> rdlen,
               rdata |-> Slice(b, nm.next + 10, nm.next + 10 + rdlen),
               next  |-> nm.next + 10 + rdlen]

\* the record a freshly built response to query carries behind the copy of the
\* query's body
AnswerOf(m, query) == DecodeRecord(m, Len(query))

\* the IPv4 addresses an A answer may carry: one the resolver returned, or the fallback
V4Answers == {r.octets : r \in {x \in ResolverResults : x.fam = "V4"}} \cup {Fallback.octets}

\* the answer to an A query: one record of type A whose 4 data bytes are an
\* address of the resolver or the fallback, and nothing behind it
IsAAnswer(m, query) ==
    LET rr == AnswerOf(m, query) IN
    /\ rr.ok
    /\ rr.next = Len(m)
    /\ rr.type = QTypeA
    /\ rr.rdlen = 4
    /\ rr.rdata \in V4Answers

\* C11: every answer to a query whose question is of type A, on the UDP path and
\* on the TLS path, carries exactly one record of type A with 4 data bytes: the
\* resolver's address, or the fallback 192.168.1.1, whatever address family the
\* resolver returned.
C11_ARecordForAQuery ==
    /\ (udpLast.sent # <<>> /\ Parse(udpLast.query).questions[1].qtype = QTypeA)
          => IsAAnswer(udpLast.sent, udpLast.query)
    /\ \A c \in Conns :
          (conn[c].pc = "write_miss" /\ question(c).qtype = QTypeA)
              => IsAAnswer(conn[c].response, conn[c].buf)

---------------------------------------------------------------------------
(* The Response Cache as an object *)

\* the names the cache holds
Keys(cache) == {cache[i].key : i \in 1..Len(cache)}

\* the entries of the cache as pairs of a name and its bytes
Entries(cache) == {<<cache[i].key, cache[i].val>> : i \in 1..Len(cache)}

\* of the names the cache holds, the one whose last use is the oldest: the first
\* name of the history h that is in the cache
LeastRecent(cache, h) ==
    LET keys == Keys(cache)
        i    == CHOOSE n \in 1..Len(h) : h[n] \in keys /\ \A j \in 1..(n - 1) : h[j] \notin keys
    IN  h[i]

\* a step in which task c puts its response into the cache
Inserts(c) == conn[c].pc = "miss" /\ conn'[c].pc = "write_miss"

\* a step in which task c finds its name in the cache
Hits(c) == conn[c].pc = "lookup" /\ conn'[c].pc = "write_hit"

\* C12: the cache behaves as an LRU object of capacity 100.  An insert makes a
\* lookup of that name return exactly the inserted bytes and removes an entry
\* only when a new name meets a full cache, and then the one whose last insert
\* or lookup hit is the oldest; a lookup hit returns the stored bytes and counts
\* as a use; no other step, the passing of time included, changes the cache.
C12_CacheIsLru ==
    [][/\ \A c \in Conns :
            Inserts(c) =>
                LET k       == question(c).qname
                    oldKeys == Keys(CACHE)
                    newKeys == Keys(CACHE')
                IN  /\ k \in newKeys
                    /\ CacheValue(CACHE', k) = conn'[c].response
                    /\ oldKeys \ newKeys =
                           IF k \notin oldKeys /\ Cardinality(oldKeys) = CacheCapacity
                           THEN {LeastRecent(CACHE, used)}
                           ELSE {}
                    /\ {e \in Entries(CACHE') : e[1] # k} \subseteq Entries(CACHE)
                    /\ Cardinality(newKeys) = Len(CACHE')
                    /\ Len(CACHE') <= CacheCapacity
       /\ \A c \in Conns :
            Hits(c) =>
                LET k == question(c).qname IN
                /\ conn'[c].response = CacheValue(CACHE, k)
                /\ Entries(CACHE') = Entries(CACHE)
                /\ used'[Len(used')] = k
       /\ (\A c \in Conns : ~Inserts(c) /\ ~Hits(c)) => CACHE' = CACHE]_vars

\* the name used longest ago was found by a lookup, and the insert of a new name
\* that followed evicted the second oldest name instead of it
C12_Witness ==
    /\ conn[1].pc = "done"
    /\ conn[2].pc = "write_miss"
    /\ conn[2].buf = CacheQueryOf(CacheCapacity + 1)
    /\ NameOf(1) \in Keys(CACHE)
    /\ NameOf(2) \notin Keys(CACHE)
    /\ NameOf(CacheCapacity + 1) \in Keys(CACHE)
    /\ Cardinality(Keys(CACHE)) = CacheCapacity

---------------------------------------------------------------------------
(* The Admission Limiter *)

\* a step in which the accept loop drops connection c after check_one denied it
Denied(c) == conn[c].pc = "free" /\ conn'[c].pc = "dropped"

\* a step in which the accept loop spawns the task of connection c
Spawned(c) == conn[c].pc = "free" /\ conn'[c].pc = "handshake"

\* C13: a connection the limiter denies is dropped and nothing else happens: no
\* task and no handshake for it, now or later, and the cache, the counters and
\* the other tasks stay as they are; every spawned task has taken exactly one
\* permit, and permits are taken at the accept of a connection only, never by a
\* query.
C13_DenialConsumesNothing ==
    [][/\ \A c \in Conns :
            Denied(c) =>
                /\ tokens = 0
                /\ UNCHANGED <<tokens, CACHE, used, lock, writes, total_queries, failed_parses>>
                /\ \A d \in Conns \ {c} : conn'[d] = conn[d]
       /\ \A c \in Conns : conn[c].pc = "dropped" => conn'[c] = conn[c]
       /\ \A c \in Conns : Spawned(c) => (tokens > 0 /\ tokens' = tokens - 1)
       /\ (accepted' = accepted + 1) =>
              \E c \in Conns : (Denied(c) \/ Spawned(c)) /\ c = accepted'
       /\ (tokens' < tokens) =>
              (tokens' = tokens - 1 /\ \E c \in Conns : Spawned(c))]_vars

\* a connection was dropped by the limiter and another one, admitted with a
\* permit that came back, is answering its query
C13_Witness ==
    \E c, d \in Conns : conn[c].pc = "dropped" /\ InLoop(d)


\* the connections the limiter has admitted
Admitted == {c \in Conns : conn[c].pc \notin {"free", "dropped"}}

\* the connections the limiter has denied
Dropped == {c \in Conns : conn[c].pc = "dropped"}

\* a step in which the accept loop calls check_one
Checks == accepted' = accepted + 1

---------------------------------------------------------------------------
(* The metrics *)

\* C15: every query that fails to parse adds exactly one to the parse-failure
\* counter, on the UDP path and on the TLS path, gets no response, and leaves
\* the server serving; nothing else changes the counter.
C15_FailuresCounted ==
    [][/\ (UdpTook /\ ~Parse(udpLast'.query).ok)
            => /\ failed_parses' = failed_parses + 1
               /\ udpLast'.sent = <<>>
               /\ udp_pc' = "recv"
       /\ (failed_parses' # failed_parses)
            => /\ failed_parses' = failed_parses + 1
               /\ \/ UdpTook /\ ~Parse(udpLast'.query).ok
                  \/ \E c \in Conns : /\ conn[c].pc = "read_body"
                                      /\ conn'[c].pc = "done"
                                      /\ writes' = writes
                                      /\ acc_pc' = acc_pc]_vars

---------------------------------------------------------------------------
(* The encoder *)

\* the name has a label of more than 63 bytes
Oversized(name) == \E i \in 1..Len(name) : Len(name[i]) > MaxLabelLen

RECURSIVE DecodeLabels(_, _, _)
DecodeLabels(b, pos, acc) ==
    IF pos >= Len(b) THEN [ok |-> FALSE, labels |-> acc]
    ELSE LET n == b[pos + 1] IN
         IF n = 0 THEN [ok |-> TRUE, labels |-> acc]
         ELSE IF n > MaxLabelLen \/ pos + 1 + n > Len(b) THEN [ok |-> FALSE, labels |-> acc]
         ELSE DecodeLabels(b, pos + 1 + n, Append(acc, Slice(b, pos + 1, pos + 1 + n)))

\* every label of the name has 1 to 63 bytes
ValidName(name) == \A i \in 1..Len(name) : Len(name[i]) \in 1..MaxLabelLen

\* the bytes behind the first from bytes of out are one record with the given
\* name, type, TTL and data, of class IN, and from was left as it was
DecodesTo(out, buf, name, type, ttl, octets) ==
    LET rr == DecodeRecord(out, Len(buf))
        ls == DecodeLabels(out, Len(buf), <<>>)
    IN  /\ SubSeq(out, 1, Len(buf)) = buf
        /\ rr.ok
        /\ rr.next = Len(out)
        /\ ls.ok
        /\ ls.labels = name
        /\ rr.type = type
        /\ rr.class = ClassIN
        /\ rr.ttl = ttl
        /\ rr.rdlen = Len(octets)
        /\ rr.rdata = octets

\* C17: for every name with labels of 1 to 63 bytes, every TTL and every
\* address, the bytes serialize_resource_record appends decode to the same name,
\* class IN, the same TTL and the same address bytes, with type 1 and a declared
\* data length of 4 for an IPv4 address, type 28 and 16 for an IPv6 address.
C17_RoundTrip ==
    (enc.pc = "returned" /\ ValidName(enc.name) /\ enc.data.kind \in {"A", "AAAA"})
        => /\ enc.ok
           /\ Len(enc.data.octets) = (IF enc.data.kind = "A" THEN 4 ELSE 16)
           /\ DecodesTo(enc.out, enc.buf, enc.name,
                        IF enc.data.kind = "A" THEN QTypeA ELSE QTypeAAAA,
                        enc.ttl, enc.data.octets)

---------------------------------------------------------------------------
(* The TTL of the answers *)

\* C18: the TTL of the record in every answer, on the UDP path and on the TLS
\* path, is the configured default TTL: the value of DNS_DEFAULT_TTL, and 60
\* only when that is not set.
C18_TtlIsConfigured ==
    /\ (udpLast.sent # <<>>) => AnswerOf(udpLast.sent, udpLast.query).ttl = default_ttl
    /\ \A c \in Conns :
          conn[c].pc = "write_miss" => AnswerOf(conn[c].response, conn[c].buf).ttl = default_ttl

---------------------------------------------------------------------------
(* Responses served from the cache *)

\* the first record behind the question section of the message m
FirstRecordOf(m) ==
    DecodeRecord(m, ParseQuestions(m, HeaderLen, BE16(m, 5), <<>>).next)

\* C19: every response a connection task writes begins with the transaction id
\* of the request read on that connection, and a response served from the cache
\* carries an answer record of the type this request asks for, whatever earlier
\* queries for the same name have put into the cache.
C19_CachedAnswersThisQuery ==
    \A c \in Conns :
        /\ Writing(c) => Slice(conn[c].response, 0, 2) = Slice(conn[c].buf, 0, 2)
        /\ conn[c].pc = "write_hit" =>
               FirstRecordOf(conn[c].response).type = question(c).qtype

---------------------------------------------------------------------------
(* Requests with several questions *)

\* C20: a connection task answers the first question of its request only: it
\* writes at most one response, the one for the first question, and the tasks
\* together put no more names into the cache than there are tasks.
C20_FirstQuestionOnly ==
    /\ \A c \in Conns : writes[c] <= 1
    /\ \A c \in Conns : Writing(c) => conn[c].qi = 1
    /\ Cardinality(Keys(CACHE)) <= Cardinality(Admitted)

===========================================================================
